---- MODULE Spec2Model ----
(***************************************************************************)
(* Model of undiscord.py: the purge loop delete_messages, the per-message  *)
(* step process_message, and the two network clients search_messages and   *)
(* delete_message, run against a remote message store.                     *)
(*                                                                         *)
(* One step of the model is one HTTP request of a client (with everything  *)
(* the program does with its response up to the next request), or the      *)
(* client-side filtering of one message.                                   *)
(***************************************************************************)
EXTENDS Integers, Sequences, FiniteSets, TLC

\* ---------------------------------------------------------------- constants
MAX_CONSECUTIVE_403_ERRORS == 5
MAX_RETRIES == 3
INITIAL_BACKOFF == 1
search_delay == 30000
delete_delay == 1000

\* ------------------------------------------------------------------- bounds
MaxMsgs == 3      \* messages in the remote store at the start
PageSize == 3     \* most messages the remote returns in one page
MaxGroup == 3     \* most messages the remote puts in one group of a page
MaxMsgsQuery == 1 \* messages in the store of the runs that vary the has filters
MaxMsgsSuccess == 4 \* messages in the store of the runs in which every call succeeds
MaxMsgsRun == 2   \* messages in the store of the runs checked for termination

\* ------------------------------------------------------- remote environment
NetErr == 0                                \* requests raised a network-level RequestException
SearchStatuses == {NetErr, 200, 202, 500}  \* outcomes of requests.get
DeleteStatuses == {NetErr, 204, 403, 404, 429}  \* outcomes of requests.delete
NoHeader == 0 - 1                          \* the response has no Retry-After header
NoResp == 0 - 2                            \* the step made no HTTP request
RetryAfterHeaders == {NoHeader, 2}

Patterns == {<<>>, <<"a">>}                \* --pattern; <<>> is None (not set)
\* the messages of the store: one that passes both filters when they are on,
\* one that only the pinned filter stops, one that only the pattern stops
Kinds == { [pinned |-> FALSE, content |-> <<"A", "b">>],
           [pinned |-> TRUE, content |-> <<"A", "b">>],
           [pinned |-> FALSE, content |-> <<"b">>] }

StoresUpTo(k) ==
  UNION { { [i \in 1..n |-> [id |-> i, pinned |-> f[i].pinned, content |-> f[i].content]] :
              f \in [1..n -> Kinds] } : n \in 0..k }

Stores == StoresUpTo(MaxMsgs)

Min(a, b) == IF a < b THEN a ELSE b

RECURSIVE Chunk(_, _)
Chunk(s, g) ==
  IF s = <<>> THEN <<>>
  ELSE <<SubSeq(s, 1, Min(g, Len(s)))>> \o Chunk(SubSeq(s, Min(g, Len(s)) + 1, Len(s)), g)

\* The "messages" field of a 200 search response: the remaining matches from
\* position off on, at most PageSize of them, in groups of g.
SearchPage(st, off, g) ==
  Chunk(SubSeq(st, off + 1, Min(off + PageSize, Len(st))), g)

RemoveMessage(st, id) == SelectSeq(st, LAMBDA m : m.id # id)

\* ------------------------------------------------------------ pure helpers
RECURSIVE Flatten(_)
Flatten(groups) ==
  IF groups = <<>> THEN <<>> ELSE Head(groups) \o Flatten(Tail(groups))

Lower(c) == CASE c = "A" -> "a" [] c = "B" -> "b" [] OTHER -> c

\* re.search(pattern, content, re.IGNORECASE) for a literal pattern
ReSearchIgnoreCase(pat, content) ==
  \E i \in 1..(Len(content) - Len(pat) + 1) :
     \A j \in 1..Len(pat) : Lower(pat[j]) = Lower(content[i + j - 1])

\* process_message without its first early return (the pinned test)
ShouldSkip_NoPinnedTest(inc_pinned, pat, m) ==
  pat # <<>> /\ ~ReSearchIgnoreCase(pat, m.content)

\* the two early returns of process_message
ShouldSkip(inc_pinned, pat, m) ==
  \/ (~inc_pinned /\ m.pinned)
  \/ (pat # <<>> /\ ~ReSearchIgnoreCase(pat, m.content))

Backoff(rc) == INITIAL_BACKOFF * (2 ^ rc)

\* response.raise_for_status() raises HTTPError (a RequestException) for 4xx/5xx
RaisesHTTPError(status) == status >= 400 /\ status < 600

\* what the except-clause of search_messages catches
SearchCaught(status) == status = NetErr \/ RaisesHTTPError(status)

\* what the except-clause of delete_message catches
DeleteCaught(status) == status = NetErr

RetryAfter(hdr) == IF hdr = NoHeader THEN 1 ELSE hdr

\* line 87 left out: a 204 keeps the counter
AfterDeleted_NoReset(c) == c

\* line 87: the counter after a 204
AfterDeleted(c) == 0

\* line 91: the counter after a 403
AfterForbidden(c) == c + 1

\* line 92
CeilingReached(c) == c >= MAX_CONSECUTIVE_403_ERRORS

\* a failure other than 403 counted as one more consecutive 403
AfterOtherFailure_Counts(c) == c + 1

\* lines 95-98: the counter after any other status or a RequestException
AfterOtherFailure(c) == c

\* the page counted message by message instead of group by group
OffsetStep_Flat(groups) == Len(Flatten(groups))

\* len(messages["messages"])
OffsetStep(groups) == Len(groups)

None == "None"

\* a Python dict display: of several items with the same key the last one stays
RECURSIVE DictLiteral(_)
DictLiteral(items) ==
  IF items = <<>>
  THEN [k \in {} |-> None]
  ELSE LET n == Len(items)
       IN (items[n][1] :> items[n][2]) @@ DictLiteral(SubSeq(items, 1, n - 1))

\* lines 45-54: the query parameters of the search request; the filters other
\* than has_link and has_file keep the defaults of line 103
SearchParams(hl, hf, off) ==
  DictLiteral(<< <<"author_id", None>>,
                 <<"content", None>>,
                 <<"has", IF hl THEN "link" ELSE None>>,
                 <<"has", IF hf THEN "file" ELSE None>>,
                 <<"min_id", None>>,
                 <<"max_id", None>>,
                 <<"include_nsfw", FALSE>>,
                 <<"offset", off>> >>)

NoParams == DictLiteral(<<>>)

\* ------------------------------------------------------------------- state
VARIABLES
  include_pinned, pattern,        \* configuration
  has_link, has_file,             \* configuration: the has filters of the search
  params,                         \* query parameters of the search request of the last step
  store,                          \* remote store: the messages matching the search
  pc,                             \* "search" | "msg" | "delete" | "done" | "crashed" | "interrupted"
  offset, total_deleted, total_failed, consecutive_403_errors, messages_remaining,
  messages,                       \* messages["messages"] of the page being processed
  idx,                            \* position of the current message in the page
  retry_count,                    \* retry_count of the running client call
  visit,                          \* 1: delete_message call of line 79, 2: of line 84
  \* history (observation only)
  backoffs,                       \* seconds slept before each retry of the running client call
  slept,                          \* the sleeps of the last step, in order, in milliseconds
  lastResp, lastHdr,              \* status and Retry-After header answered in the last step
  n204, nNon204, nSkipped,        \* messages whose delete resolved to 204 / to something else / filtered out
  passDeleted,                    \* deletions of the running pass
  passSearches, lastSearchOffset, \* search calls of the running pass, offset of the last one
  lastPassEnd,                    \* how a pass ended, if the last step ended one
  prev_403,                       \* consecutive_403_errors before the last step
  exitLog,                        \* what the last log line of an interrupted run carries
  delayOwed                       \* a delete has resolved and no delete_delay was slept since

cfgVars == <<include_pinned, pattern, has_link, has_file>>
loopVars == <<pc, offset, total_deleted, total_failed, consecutive_403_errors,
              messages_remaining, messages, idx, retry_count, visit>>
histVars == <<backoffs, slept,
              lastResp, lastHdr, n204, nNon204, nSkipped,
              passDeleted, passSearches, lastSearchOffset, lastPassEnd, prev_403, exitLog,
              delayOwed>>
vars == <<cfgVars, store, params, loopVars, histVars>>

CurMsg == Flatten(messages)[idx]

Sleep(kind, ms) == [kind |-> kind, ms |-> ms]

NoPassEnd == [how |-> "none", deleted |-> 0, restarted |-> FALSE]

NoLog == [logged |-> FALSE, counters |-> <<>>]

\* line 197: logger.info("Script interrupted by user. Exiting..."); the line is
\* written in main, where the counters of delete_messages are out of reach
InterruptLog(deleted, failed) == [logged |-> TRUE, counters |-> <<>>]

\* lines 104-108: the locals of delete_messages before the first pass
InitLoop ==
  /\ params = NoParams
  /\ pc = "search"
  /\ offset = 0
  /\ total_deleted = 0
  /\ total_failed = 0
  /\ consecutive_403_errors = 0
  /\ messages_remaining = FALSE
  /\ messages = <<>>
  /\ idx = 0
  /\ retry_count = 0
  /\ visit = 1
  /\ backoffs = <<>> /\ slept = <<>>
  /\ lastResp = NoResp /\ lastHdr = NoHeader
  /\ n204 = 0 /\ nNon204 = 0 /\ nSkipped = 0
  /\ passDeleted = 0 /\ passSearches = 0 /\ lastSearchOffset = 0
  /\ lastPassEnd = NoPassEnd
  /\ prev_403 = 0
  /\ exitLog = NoLog
  /\ delayOwed = FALSE

\* delete_messages called with the has filters off (their defaults, line 103)
Init ==
  /\ include_pinned \in BOOLEAN
  /\ pattern \in Patterns
  /\ has_link = FALSE
  /\ has_file = FALSE
  /\ store \in Stores
  /\ InitLoop


\* ------------------------------------------------------------ search side
\* break of the inner loop (line 117 or 121), then the test of line 110
EndPass(how) ==
  /\ lastPassEnd' = [how |-> how, deleted |-> passDeleted, restarted |-> messages_remaining]
  /\ messages_remaining' = FALSE
  /\ retry_count' = 0
  /\ slept' = <<>>
  /\ UNCHANGED <<messages, idx>>
  /\ IF messages_remaining
     THEN /\ pc' = "search"
          /\ passDeleted' = 0
          /\ passSearches' = 0
          /\ lastSearchOffset' = lastSearchOffset
     ELSE /\ pc' = "done"
          /\ passDeleted' = passDeleted
          /\ passSearches' = passSearches + (IF retry_count = 0 THEN 1 ELSE 0)
          /\ lastSearchOffset' = offset

\* lines 119-127: a non-empty page starts the for-loops
StartPage(page) ==
  /\ messages_remaining' = TRUE
  /\ messages' = page
  /\ idx' = 1
  /\ pc' = "msg"
  /\ retry_count' = 0
  /\ slept' = <<>>
  /\ passSearches' = passSearches + (IF retry_count = 0 THEN 1 ELSE 0)
  /\ lastSearchOffset' = offset
  /\ lastPassEnd' = NoPassEnd
  /\ UNCHANGED passDeleted

\* lines 64-67: sleep the backoff and call search_messages again
SearchRetry ==
  /\ retry_count' = retry_count + 1
  /\ slept' = <<Sleep("backoff", 1000 * Backoff(retry_count))>>
  /\ pc' = "search"
  /\ passSearches' = passSearches + (IF retry_count = 0 THEN 1 ELSE 0)
  /\ lastSearchOffset' = offset
  /\ lastPassEnd' = NoPassEnd
  /\ UNCHANGED <<messages_remaining, messages, idx, passDeleted>>

\* line 62 returns None for a status that is neither 200 nor 4xx/5xx; line 119
\* then raises AttributeError, which nothing catches
SearchCrash ==
  /\ pc' = "crashed"
  /\ slept' = <<>>
  /\ passSearches' = passSearches + (IF retry_count = 0 THEN 1 ELSE 0)
  /\ lastSearchOffset' = offset
  /\ lastPassEnd' = NoPassEnd
  /\ UNCHANGED <<retry_count, messages_remaining, messages, idx, passDeleted>>

\* one requests.get of search_messages (line 58), answered with one of
\* statuses, and what follows from the answer
SearchAttemptOn(statuses) ==
  /\ pc = "search"
  /\ \E status \in statuses :
     \E g \in (IF status = 200 THEN 1..MaxGroup ELSE {1}) :
       /\ lastResp' = status
       /\ params' = SearchParams(has_link, has_file, offset)
       /\ IF status = 200
          THEN /\ backoffs' = <<>>
               /\ IF SearchPage(store, offset, g) = <<>>
                  THEN EndPass("empty")
                  ELSE StartPage(SearchPage(store, offset, g))
          ELSE IF SearchCaught(status)
          THEN IF retry_count < MAX_RETRIES
               THEN /\ backoffs' = Append(backoffs, Backoff(retry_count))
                    /\ SearchRetry
               ELSE /\ backoffs' = <<>>
                    /\ EndPass("searchfail")
          ELSE /\ backoffs' = <<>>
               /\ SearchCrash
  /\ lastHdr' = NoHeader
  /\ prev_403' = consecutive_403_errors
  /\ UNCHANGED <<cfgVars, store, offset, total_deleted, total_failed, consecutive_403_errors,
                 visit, n204, nNon204, nSkipped, exitLog, delayOwed>>

SearchAttempt == SearchAttemptOn(SearchStatuses)

\* ------------------------------------------------------------ delete side
\* process_message returns (success, c) to line 127 after sleeping sleeps;
\* lines 128-135 count the result and go on to the next message, or after the
\* last message of the page advance the offset and sleep search_delay
Return(success, c, sleeps) ==
  /\ total_deleted' = (IF success THEN total_deleted + 1 ELSE total_deleted)
  /\ total_failed' = (IF success THEN total_failed ELSE total_failed + 1)
  /\ consecutive_403_errors' = c
  /\ retry_count' = 0
  /\ visit' = 1
  /\ IF idx < Len(Flatten(messages))
     THEN /\ idx' = idx + 1
          /\ pc' = "msg"
          /\ offset' = offset
          /\ slept' = sleeps
     ELSE /\ idx' = idx
          /\ pc' = "search"
          /\ offset' = offset + OffsetStep(messages)
          /\ slept' = sleeps \o <<Sleep("search_delay", search_delay)>>

\* lines 73-79: the client-side filters of process_message
ProcessMessage ==
  /\ pc = "msg"
  /\ IF ShouldSkip(include_pinned, pattern, CurMsg)
     THEN /\ Return(FALSE, consecutive_403_errors, <<>>)
          /\ nSkipped' = nSkipped + 1
     ELSE /\ pc' = "delete"
          /\ visit' = 1
          /\ retry_count' = 0
          /\ slept' = <<>>
          /\ UNCHANGED <<offset, total_deleted, total_failed, consecutive_403_errors,
                         idx, nSkipped>>
  /\ lastResp' = NoResp
  /\ lastHdr' = NoHeader
  /\ lastPassEnd' = NoPassEnd
  /\ prev_403' = consecutive_403_errors
  /\ params' = NoParams
  /\ UNCHANGED <<cfgVars, store, messages_remaining, messages, backoffs, n204, nNon204,
                 passDeleted, passSearches, lastSearchOffset, exitLog, delayOwed>>

\* a 429 retried however often it comes back
RetryOn429_EveryTime(status, v) == status = 429

\* line 80: a 429 answer to the first delete_message call is retried
RetryOn429(status, v) == status = 429 /\ v = 1

\* lines 34-37: sleep the backoff and call delete_message again
DeleteRetry ==
  /\ retry_count' = retry_count + 1
  /\ slept' = <<Sleep("backoff", 1000 * Backoff(retry_count))>>
  /\ pc' = "delete"
  /\ UNCHANGED <<offset, total_deleted, total_failed, consecutive_403_errors, idx, visit,
                 store, n204, nNon204, passDeleted>>

\* lines 81-84: sleep Retry-After and call delete_message a second time
RateLimited(hdr) ==
  /\ slept' = <<Sleep("retry_after", 1000 * RetryAfter(hdr))>>
  /\ visit' = 2
  /\ retry_count' = 0
  /\ pc' = "delete"
  /\ UNCHANGED <<offset, total_deleted, total_failed, consecutive_403_errors, idx,
                 store, n204, nNon204, passDeleted>>

\* lines 85-101: the final answer of the delete decides the result of process_message
Resolve(status) ==
  IF status = 204
  THEN /\ store' = RemoveMessage(store, CurMsg.id)
       /\ Return(TRUE, AfterDeleted(consecutive_403_errors), <<>>)
       /\ n204' = n204 + 1
       /\ passDeleted' = passDeleted + 1
       /\ nNon204' = nNon204
  ELSE /\ store' = store
       /\ n204' = n204
       /\ passDeleted' = passDeleted
       /\ nNon204' = nNon204 + 1
       /\ IF status = 403
          THEN IF CeilingReached(AfterForbidden(consecutive_403_errors))
               THEN Return(FALSE, AfterForbidden(consecutive_403_errors), <<>>)
               ELSE Return(FALSE, AfterForbidden(consecutive_403_errors),
                           <<Sleep("delete_delay", delete_delay)>>)
          ELSE Return(FALSE, AfterOtherFailure(consecutive_403_errors),
                      <<Sleep("delete_delay", delete_delay)>>)

\* one requests.delete of delete_message (line 31), answered with one of
\* statuses, and what follows from the answer
DeleteAttemptOn(statuses) ==
  /\ pc = "delete"
  /\ \E status \in statuses :
     \E hdr \in (IF status = 429 THEN RetryAfterHeaders ELSE {NoHeader}) :
       /\ lastResp' = status
       /\ lastHdr' = (IF status = 429 THEN hdr ELSE NoHeader)
       /\ IF DeleteCaught(status) /\ retry_count < MAX_RETRIES
          THEN /\ backoffs' = Append(backoffs, Backoff(retry_count))
               /\ DeleteRetry
          ELSE /\ backoffs' = <<>>
               /\ IF RetryOn429(status, visit)
                  THEN RateLimited(hdr)
                  ELSE Resolve(status)
  /\ lastPassEnd' = NoPassEnd
  /\ prev_403' = consecutive_403_errors
  /\ delayOwed' = IF pc' = "delete" THEN delayOwed
                  ELSE \A i \in 1..Len(slept') : slept'[i].kind # "delete_delay"
  /\ params' = NoParams
  /\ UNCHANGED <<cfgVars, messages_remaining, messages, nSkipped,
                 passSearches, lastSearchOffset, exitLog>>

DeleteAttempt == DeleteAttemptOn(DeleteStatuses)

\* lines 180-197: a KeyboardInterrupt raised at any request or sleep is caught by
\* nothing in delete_messages; it unwinds to main, which logs one line and
\* returns.  The frame of delete_messages is gone; the model keeps the run
\* counters as they stood and clears the rest of the frame.
Interrupt ==
  /\ pc \in {"search", "msg", "delete"}
  /\ pc' = "interrupted"
  /\ offset' = 0
  /\ messages_remaining' = FALSE
  /\ messages' = <<>>
  /\ idx' = 0
  /\ retry_count' = 0
  /\ visit' = 1
  /\ backoffs' = <<>>
  /\ slept' = <<>>
  /\ lastResp' = NoResp
  /\ lastHdr' = NoHeader
  /\ lastPassEnd' = NoPassEnd
  /\ passDeleted' = 0
  /\ passSearches' = 0
  /\ lastSearchOffset' = 0
  /\ prev_403' = consecutive_403_errors
  /\ exitLog' = InterruptLog(total_deleted, total_failed)
  /\ delayOwed' = FALSE
  /\ params' = NoParams
  /\ UNCHANGED <<cfgVars, store, total_deleted, total_failed, consecutive_403_errors,
                 n204, nNon204, nSkipped>>

Next ==
  \/ SearchAttempt
  \/ ProcessMessage
  \/ DeleteAttempt
  \/ Interrupt

Spec == Init /\ [][Next]_vars

\* a run in which every search is answered 200 and every delete 204, on a
\* store that can be longer than a page
InitSuccess ==
  /\ include_pinned \in BOOLEAN
  /\ pattern \in Patterns
  /\ has_link = FALSE
  /\ has_file = FALSE
  /\ store \in StoresUpTo(MaxMsgsSuccess)
  /\ InitLoop

SearchAnswered200 == SearchAttemptOn({200})

DeleteAnswered204 == DeleteAttemptOn({204})

NextSuccess ==
  \/ SearchAnswered200
  \/ ProcessMessage
  \/ DeleteAnswered204

SpecSuccess == InitSuccess /\ [][NextSuccess]_vars

\* a run that nothing cuts short: every request is answered or fails at the
\* network level, no search answer is outside 200 and 4xx/5xx, no interrupt
SearchAnswered == SearchAttemptOn({NetErr, 200, 500})

NextRun ==
  \/ SearchAnswered
  \/ ProcessMessage
  \/ DeleteAttempt

InitRun ==
  /\ include_pinned \in BOOLEAN
  /\ pattern \in Patterns
  /\ has_link = FALSE
  /\ has_file = FALSE
  /\ store \in StoresUpTo(MaxMsgsRun)
  /\ InitLoop

\* the interpreter keeps executing the single thread of the program
SpecRun == InitRun /\ [][NextRun]_vars /\ WF_vars(NextRun)

\* delete_messages called with every combination of has_link and has_file
InitQuery ==
  /\ include_pinned \in BOOLEAN
  /\ pattern \in Patterns
  /\ has_link \in BOOLEAN
  /\ has_file \in BOOLEAN
  /\ store \in StoresUpTo(MaxMsgsQuery)
  /\ InitLoop

SpecQuery == InitQuery /\ [][Next]_vars

TypeOK ==
  /\ pc \in {"search", "msg", "delete", "done", "crashed", "interrupted"}
  /\ offset \in Nat /\ total_deleted \in Nat /\ total_failed \in Nat
  /\ consecutive_403_errors \in Nat
  /\ retry_count \in 0..MAX_RETRIES
  /\ visit \in {1, 2}
  /\ pc \in {"msg", "delete"} => idx \in 1..Len(Flatten(messages))

\* --------------------------------------------------------------- claims
Stopped == pc \in {"done", "crashed", "interrupted"}

\* C1: the purge loop aborts exactly when consecutive_403_errors reaches
\* MAX_CONSECUTIVE_403_ERRORS: once the counter is at the ceiling the loop has
\* stopped, so no further delete call and no further search call follows.
C1_AbortsAtCeiling ==
  consecutive_403_errors >= MAX_CONSECUTIVE_403_ERRORS => Stopped

\* C2: the first search of every pass is issued with offset 0, and within a
\* pass the offset of a search is never below the offset of the search before.
C2_OffsetRestartsAtZero ==
  pc = "search" =>
    /\ passSearches = 0 => offset = 0
    /\ passSearches > 0 => offset >= lastSearchOffset

\* C3: a pass that ends on an empty page is followed by a new pass if and only
\* if it deleted at least one message.
C3_NewPassIffDeleted ==
  lastPassEnd.how = "empty" => (lastPassEnd.restarted <=> lastPassEnd.deleted > 0)

\* a message fails an enabled client-side filter
FailsFilter(m) ==
  \/ (m.pinned /\ ~include_pinned)
  \/ (pattern # <<>> /\ ~ReSearchIgnoreCase(pattern, m.content))

\* C4: for every include_pinned and pattern, a message that fails an enabled
\* client-side filter is never the message of a delete call.
C4_FilteredNeverDeleted ==
  pc = "delete" => ~FailsFilter(CurMsg)

\* C4 witness: with both filters on, messages have been filtered out and the
\* delete of a message that passes them is under way.
C4_Witness ==
  /\ pc = "delete"
  /\ ~include_pinned /\ pattern # <<>>
  /\ nSkipped >= 2

\* C5: total_deleted is the number of messages whose delete resolved to 204
\* and total_failed the number whose delete resolved to another outcome; a
\* message the filters skip changes neither counter.
C5_CountersMatchOutcomes ==
  /\ total_deleted = n204
  /\ total_failed = nNon204

C6_ResetOnlyOnDeleted_Step ==
  /\ n204' = n204 + 1 => consecutive_403_errors' = 0
  /\ n204' # n204 + 1 => consecutive_403_errors' >= consecutive_403_errors

\* C6: consecutive_403_errors is 0 right after a message whose delete
\* resolved to 204, whatever it was before, and no other step decreases it.
C6_ResetOnlyOnDeleted == [][ C6_ResetOnlyOnDeleted_Step ]_vars

\* C6 witness: a 204 has just reset the counter from 4.
C6_Witness ==
  /\ lastResp = 204
  /\ prev_403 = 4
  /\ consecutive_403_errors = 0

C7_RetryOnceAfter429_Step ==
  pc = "delete" /\ pc' # "interrupted" =>
    /\ visit = 1 /\ lastResp' = 429 =>
         /\ pc' = "delete" /\ visit' = 2 /\ retry_count' = 0
         /\ idx' = idx /\ messages' = messages
         /\ total_deleted' = total_deleted /\ total_failed' = total_failed
         /\ Len(slept') = 1
         /\ slept'[1].kind = "retry_after"
         /\ slept'[1].ms >= 1000 * (IF lastHdr' = NoHeader THEN 1 ELSE lastHdr')
    /\ visit = 2 /\ (lastResp' # NetErr \/ retry_count = MAX_RETRIES) =>
         /\ pc' # "delete"
         /\ visit' = 1
         /\ lastResp' = 204 =>
              /\ total_deleted' = total_deleted + 1 /\ total_failed' = total_failed
              /\ consecutive_403_errors' = 0
         /\ lastResp' = 403 =>
              /\ total_deleted' = total_deleted /\ total_failed' = total_failed + 1
              /\ consecutive_403_errors' = consecutive_403_errors + 1
         /\ lastResp' \notin {204, 403} =>
              /\ total_deleted' = total_deleted /\ total_failed' = total_failed + 1
              /\ consecutive_403_errors' = consecutive_403_errors

\* C7: a 429 answer to the first delete call of a message is followed by a
\* sleep of at least Retry-After seconds (1 without the header) and one more
\* delete call for the same message; the answer to that second call is final
\* (no third call, also when it is 429 again) and decides how the message is
\* counted: 204 deleted, 403 forbidden, anything else failed.
C7_RetryOnceAfter429 == [][ C7_RetryOnceAfter429_Step ]_vars

\* C7 witness: the second delete call was answered 429 again and the message
\* has been counted as failed.
C7_Witness ==
  /\ lastResp = 429
  /\ pc \in {"msg", "search"}
  /\ nNon204 >= 1

\* C8: once a search call has failed for good the loop has stopped, whether or
\* not earlier pages of the pass were non-empty.
C8_SearchFailureStops ==
  lastPassEnd.how = "searchfail" => Stopped

C9_OnlyNetworkRetried_Step ==
  pc = "search" /\ pc' # "interrupted" =>
    /\ lastResp' \notin {NetErr, 200} =>
         /\ lastPassEnd'.how = "searchfail"
         /\ slept' = <<>>
    /\ lastResp' = 200 => (pc' = "msg" \/ lastPassEnd'.how = "empty")

\* C9: a search answer with a status other than 200 makes search_messages
\* fail at once, without retry and without backoff sleep; a 200 answer
\* returns the page.
C9_OnlyNetworkRetried == [][ C9_OnlyNetworkRetried_Step ]_vars

\* a client call that runs again after a failure: same call, next retry_count
Retried == pc' = pc /\ retry_count' = retry_count + 1

C10_BoundedBackoff_Step ==
  pc \in {"search", "delete"} /\ pc' # "interrupted" =>
    /\ retry_count' <= MAX_RETRIES
    /\ lastResp' # NetErr => ~Retried
    /\ lastResp' = NetErr /\ retry_count < MAX_RETRIES =>
         /\ Retried
         /\ slept' = <<Sleep("backoff", 1000 * backoffs'[Len(backoffs')])>>
         /\ backoffs' = SubSeq(<<1, 2, 4>>, 1, retry_count')
         /\ offset' = offset /\ idx' = idx /\ messages' = messages
    /\ lastResp' = NetErr /\ retry_count = MAX_RETRIES =>
         /\ ~Retried
         /\ pc = "search" => lastPassEnd'.how = "searchfail"
         /\ pc = "delete" => nNon204' = nNon204 + 1

\* C10: in both clients a call is retried at most MAX_RETRIES times, only
\* after a network-level failure, sleeping 1, 2 and 4 seconds before the
\* retries; the first attempt that gets a response ends the retrying, and a
\* network-level failure of the last retry surfaces as the failure of the call.
C10_BoundedBackoff == [][ C10_BoundedBackoff_Step ]_vars

C11_OtherFailureCounted_Step ==
  /\ pc = "delete" /\ pc' # "interrupted"
  /\ lastResp' \notin {204, 403}
  /\ ~(lastResp' = 429 /\ visit = 1)
  /\ ~(lastResp' = NetErr /\ retry_count < MAX_RETRIES)
  => /\ total_failed' = total_failed + 1
     /\ total_deleted' = total_deleted
     /\ consecutive_403_errors' = consecutive_403_errors
     /\ pc' \in {"msg", "search"}
     /\ idx < Len(Flatten(messages)) =>
          /\ pc' = "msg" /\ idx' = idx + 1 /\ messages' = messages

\* C11: a message whose delete resolves to a status other than 204 and 403, or
\* to an exhausted network failure, adds exactly 1 to total_failed, leaves
\* total_deleted and consecutive_403_errors as they were, does not stop the
\* loop, and the loop goes on to the next message of the page.
C11_OtherFailureCounted == [][ C11_OtherFailureCounted_Step ]_vars

\* C11 witness: after 403s, a delete answered 404 was counted and the loop is
\* at the next message of the page with the counter unchanged.
C11_Witness ==
  /\ lastResp = 404
  /\ pc = "msg"
  /\ idx >= 2
  /\ prev_403 >= 1
  /\ consecutive_403_errors = prev_403

\* C12: no answer of the remote to a search or a delete makes an unhandled
\* fault reach the purge loop; in particular a search answer whose status is
\* neither 200 nor 4xx/5xx does not hand a non-page value to the loop.
C12_NoUnhandledFault ==
  pc # "crashed"

\* C13: a user interrupt stops the loop with no further search or delete
\* call, and the run ends with a summary that carries the run counters (total
\* deleted, total failed) as they stood at the interrupt.
C13_InterruptSummary ==
  pc = "interrupted" =>
    /\ exitLog.logged
    /\ exitLog.counters = <<total_deleted, total_failed>>

C14_OffsetByMessageCount_Step ==
  pc \in {"msg", "delete"} /\ pc' = "search" =>
    offset' = offset + Len(Flatten(messages))

\* C14: after a non-empty page has been processed the offset grows by the
\* number of messages of the page, counted over all its groups, for every
\* shape of grouping.
C14_OffsetByMessageCount == [][ C14_OffsetByMessageCount_Step ]_vars

C14_OffsetByGroupCount_Step ==
  pc \in {"msg", "delete"} /\ pc' = "search" =>
    offset' = offset + Len(messages)

\* C14 as amended: after a non-empty page has been processed the offset grows
\* by the number of groups of the page, whatever the number of messages in
\* each group.
C14_OffsetByGroupCount == [][ C14_OffsetByGroupCount_Step ]_vars

\* C14 witness: a page with a group of several messages has been processed
\* and the next search of the pass is due.
C14_Witness ==
  /\ pc = "search"
  /\ passSearches >= 1
  /\ Len(Flatten(messages)) > Len(messages)
  /\ offset = lastSearchOffset + Len(messages)

C15_DelayBetweenDeletes_Step ==
  pc = "delete" /\ visit = 1 /\ retry_count = 0 /\ lastResp' # NoResp => ~delayOwed

\* C15: after every message for which a delete was issued, whatever the
\* outcome, delete_delay is slept before the next delete call: the first
\* delete request of a message is never made while the delay after the delete
\* of the message before is still owed.
C15_DelayBetweenDeletes == [][ C15_DelayBetweenDeletes_Step ]_vars

\* C16: the has parameter of a search request is link when only has_link is
\* set, file when only has_file is set, and absent (None) when neither is set.
C16_HasParameter ==
  "has" \in DOMAIN params =>
    /\ has_link /\ ~has_file => params["has"] = "link"
    /\ has_file /\ ~has_link => params["has"] = "file"
    /\ ~has_link /\ ~has_file => params["has"] = None

\* C17: when every search is answered 200 and every delete 204 and the store
\* changes only through these deletes, no message that passes the client-side
\* filters is left in the store when delete_messages returns.
C17_NothingLeft ==
  pc = "done" => \A i \in DOMAIN store : FailsFilter(store[i])

\* C18: on a finite store that shrinks only through the deletes of the run,
\* with every request answered or failed, delete_messages eventually returns
\* for every mix of delete outcomes.
C18_Terminates == <>(pc = "done")

\* C18 witness: a run with a deleted and a failed message has returned after
\* more than one pass.
C18_Witness ==
  /\ pc = "done"
  /\ n204 >= 1 /\ nNon204 >= 1
  /\ lastPassEnd.how = "empty" /\ passSearches = 1 /\ offset > 0

====
